---- MODULE Spec2Model ----
(***************************************************************************)
(* Model of cellbox/cellbox/model.py: the model factory, the build         *)
(* sequences of PertBio / CellBox / CoExp (graph construction), the        *)
(* CellBox interaction-matrix mask, and the forward passes of CellBox and  *)
(* LinReg evaluated on concrete tensors.                                   *)
(*                                                                         *)
(* Graph construction is symbolic, as it is in TensorFlow's graph mode:    *)
(* self.train_x is a tensor handle, tf.transpose(self.train_x) is a node   *)
(* over it.  A node is a record; the numpy mask, which the code computes   *)
(* eagerly while building, is a concrete 0/1 matrix.                       *)
(*                                                                         *)
(* Matrices are sequences of rows (1-based); the code's 0-based index i    *)
(* is position i + 1.                                                      *)
(***************************************************************************)
EXTENDS Integers, Sequences, FiniteSets, TLC

VARIABLES
    args,     \* the configuration object handed to factory / the constructor
    caller,   \* "factory": factory(args); "direct": Class(args), y0 attributes assigned, .build()
    pc,       \* position in factory / build
    obj,      \* the model instance: attribute name -> value, for the attributes set so far
    ret,      \* what the call returned: "pending", "None" or "model"
    exc,      \* the exception that ended the call, "none" while there is none
    steps,    \* the build steps executed so far, in order
    call,     \* the arguments of a forward call evaluated on concrete tensors
    result    \* what that forward call computed

vars == <<args, caller, pc, obj, ret, exc, steps, call, result>>

\* ----------------------------------------------------------------- bounds

MaxNx == 4
MaxT == 3

\* ------------------------------------------------------------ arithmetic

Min(a, b) == IF a < b THEN a ELSE b
Max(a, b) == IF a > b THEN a ELSE b
Abs(a) == IF a < 0 THEN -a ELSE a

RECURSIVE GCD(_, _)
GCD(a, b) == IF b = 0 THEN a ELSE GCD(b, a % b)

\* An exact quotient n / d (d > 0) in lowest terms.
Frac(n, d) ==
    LET g == GCD(Abs(n), d)
    IN  <<n \div g, d \div g>>

RECURSIVE SumSeq(_)
SumSeq(s) == IF s = <<>> THEN 0 ELSE Head(s) + SumSeq(Tail(s))

\* ---------------------------------------------------------------- tensors

Rows(M) == Len(M)
Cols(M) == IF Len(M) = 0 THEN 0 ELSE Len(M[1])

\* tf.transpose of a rank-2 tensor
Transpose(M) == [j \in 1..Cols(M) |-> [i \in 1..Rows(M) |-> M[i][j]]]

\* np.zeros((r, c))
Zeros(r, c) == [i \in 1..r |-> [j \in 1..c |-> 0]]

\* All r x c matrices over the value set V
Matrices(r, c, V) == [1..r -> [1..c -> V]]

\* --------------------------------------------------- numpy slices and mask

\* Python's normalisation of a slice bound i for a dimension of length n
SliceBound(i, n) == IF i < 0 THEN Max(i + n, 0) ELSE Min(i, n)

\* The 0-based indices a[lo:hi] selects in a dimension of length n
SliceIdx(lo, hi, n) == {k \in 0..(n - 1) : SliceBound(lo, n) <= k /\ k < SliceBound(hi, n)}

\* numpy's rule for a[...] = value: each dimension of the value equals the
\* target's or is 1
Broadcastable(vr, vc, tr, tc) == (vr = tr \/ vr = 1) /\ (vc = tc \/ vc = 1)

\* W_mask[rlo:rhi, clo:chi] = np.zeros([zr, zc]) on a mask in progress.
\* st is [err, m]: np.zeros raises ValueError on a negative dimension, the
\* assignment raises ValueError when the shapes do not broadcast.
AssignZeros(st, n, rlo, rhi, clo, chi, zr, zc) ==
    LET R == SliceIdx(rlo, rhi, n)
        C == SliceIdx(clo, chi, n)
    IN  IF st.err THEN st
        ELSE IF zr < 0 \/ zc < 0 THEN [err |-> TRUE, m |-> st.m]
        ELSE IF ~Broadcastable(zr, zc, Cardinality(R), Cardinality(C))
             THEN [err |-> TRUE, m |-> st.m]
        ELSE [err |-> FALSE,
              m |-> [i \in 1..n |-> [j \in 1..n |->
                        IF (i - 1) \in R /\ (j - 1) \in C THEN 0 ELSE st.m[i][j]]]]

\* 1.0 - np.diag(np.ones([n_x]))
MaskDiag(n) == [i \in 1..n |-> [j \in 1..n |-> IF i = j THEN 0 ELSE 1]]

\* CellBox.get_variables, lines 147-151: the mask, or the error raised on the way
W_maskDropBlock(n_x, n_protein_nodes, n_activity_nodes) ==
    LET s0 == [err |-> FALSE, m |-> MaskDiag(n_x)]
        s1 == AssignZeros(s0, n_x, n_activity_nodes, n_x, 0, n_x,
                          n_x - n_activity_nodes, n_x)
    IN  AssignZeros(s1, n_x, 0, n_x, n_protein_nodes, n_activity_nodes,
                    n_x, n_activity_nodes - n_protein_nodes)

W_mask(n_x, n_protein_nodes, n_activity_nodes) ==
    LET s0 == [err |-> FALSE, m |-> MaskDiag(n_x)]
        \* W_mask[n_activity_nodes:, :] = np.zeros([n_x - n_activity_nodes, n_x])
        s1 == AssignZeros(s0, n_x, n_activity_nodes, n_x, 0, n_x,
                          n_x - n_activity_nodes, n_x)
        \* W_mask[:, n_protein_nodes:n_activity_nodes] = np.zeros([n_x, n_activity_nodes - n_protein_nodes])
        s2 == AssignZeros(s1, n_x, 0, n_x, n_protein_nodes, n_activity_nodes,
                          n_x, n_activity_nodes - n_protein_nodes)
        \* W_mask[n_protein_nodes:n_activity_nodes, n_activity_nodes:] = np.zeros([...])
    IN  AssignZeros(s2, n_x, n_protein_nodes, n_activity_nodes, n_activity_nodes, n_x,
                    n_activity_nodes - n_protein_nodes, n_x - n_activity_nodes)

\* W_mask * W, line 152, on a concrete value W of the variable
MaskedW(mask, W) ==
    [i \in 1..Rows(mask) |-> [j \in 1..Cols(mask) |-> mask[i][j] * W[i][j]]]

\* ------------------------------------------------------ graph-mode nodes

\* A tensor handle an iterator or a placeholder provides
Input(name) == [op |-> "input", name |-> name]

\* tf.transpose(t) as a graph node
TransposeNode(t) == [op |-> "transpose", of |-> t]

\* tf.constant(np.zeros((n_x, 1)), name="x_init")
ZerosNode(r, c) == [op |-> "zeros", rows |-> r, cols |-> c]

\* The value of an initial-state node when the input tensor it may read holds X
EvalNode(node, X) ==
    IF node.op = "zeros" THEN Zeros(node.rows, node.cols)
    ELSE IF node.op = "transpose" THEN Transpose(X)
    ELSE X

Has(a) == a \in DOMAIN obj
Put(o, a, v) == (a :> v) @@ o

Splits == {"train", "monitor", "eval"}
XAttr(s) == IF s = "train" THEN "train_x" ELSE IF s = "monitor" THEN "monitor_x" ELSE "eval_x"
YAttr(s) == IF s = "train" THEN "train_y" ELSE IF s = "monitor" THEN "monitor_y" ELSE "eval_y"
Y0Attr(s) == IF s = "train" THEN "train_y0" ELSE IF s = "monitor" THEN "monitor_y0" ELSE "eval_y0"
YhatAttr(s) == IF s = "train" THEN "train_yhat" ELSE IF s = "monitor" THEN "monitor_yhat" ELSE "eval_yhat"
LossAttr(s) == IF s = "train" THEN "train_loss" ELSE IF s = "monitor" THEN "monitor_loss" ELSE "eval_loss"
MseAttr(s) == IF s = "train" THEN "train_mse_loss" ELSE IF s = "monitor" THEN "monitor_mse_loss" ELSE "eval_mse_loss"
MetricAttr(s) ==
    IF s = "train" THEN "convergence_metric_train"
    ELSE IF s = "monitor" THEN "convergence_metric_monitor" ELSE "convergence_metric_eval"

\* --------------------------------------------------------- configurations

\* The names factory tests for, and one it does not (the TODO of line 27)
Implemented == {"CellBox", "CoExp", "CoExp_nonlinear", "LinReg", "NN"}
SharedBuild == {"LinReg", "NN"}
CoExpFamily == {"CoExp", "CoExp_nonlinear"}

\* pert_form: the two literals build compares with, and the two the documentation names
PertForms == {"by u", "fix x", "by input", "fix node level"}
\* weight_loss: the two literals get_ops compares with, and the documented "none"
WeightLosses == {"expr", "None", "none"}
Envelopes == {0, 2}

\* One-sample perturbation tables of n_x nodes for the co-expression models
PertFulls(n) == {<<[c \in 1..n |-> IF c \in S THEN 1 ELSE 0]>> : S \in SUBSET (1..n)}

CellBoxArgs ==
    {[model |-> "CellBox", pert_form |-> pf, weight_loss |-> wl, n_x |-> n,
      n_protein_nodes |-> p, n_activity_nodes |-> a, envelope |-> e, pert_full |-> <<>>] :
        pf \in PertForms, wl \in WeightLosses, e \in Envelopes,
        n \in 1..MaxNx, p \in (-1)..(MaxNx + 1), a \in (-1)..(MaxNx + 1)}

OtherArgs ==
    {[model |-> m, pert_form |-> "by u", weight_loss |-> wl, n_x |-> n,
      n_protein_nodes |-> 0, n_activity_nodes |-> n, envelope |-> 0, pert_full |-> <<>>] :
        m \in SharedBuild \cup {"Bayesian"}, wl \in WeightLosses, n \in 1..MaxNx}

CoExpArgs ==
    UNION {{[model |-> m, pert_form |-> "by u", weight_loss |-> wl, n_x |-> n,
             n_protein_nodes |-> 0, n_activity_nodes |-> n, envelope |-> 0, pert_full |-> d] :
               m \in CoExpFamily, wl \in WeightLosses, d \in PertFulls(n)} : n \in 1..MaxNx}

ValidTriple(a) ==
    0 <= a.n_protein_nodes /\ a.n_protein_nodes <= a.n_activity_nodes
                           /\ a.n_activity_nodes <= a.n_x

\* --------------------------------------------------------- constructors

\* PertBio.__init__
PertBio_init(a) ==
    [args |-> "args", n_x |-> a.n_x, pert_in |-> "pert_in", expr_out |-> "expr_out",
     iter_train |-> "iter_train", iter_monitor |-> "iter_monitor", iter_eval |-> "iter_eval",
     train_x |-> Input("train_x"), train_y |-> Input("train_y"),
     monitor_x |-> Input("monitor_x"), monitor_y |-> Input("monitor_y"),
     eval_x |-> Input("eval_x"), eval_y |-> Input("eval_y"),
     l1_lambda |-> Input("l1_lambda_placeholder"),
     l2_lambda |-> Input("l2_lambda_placeholder"),
     lr |-> Input("lr")]

\* np.where(mu != 0)[0], 0-based
NonZero(mu) == {i \in 0..(Len(mu) - 1) : mu[i + 1] # 0}

SetMin(S) == CHOOSE x \in S : \A y \in S : x <= y
SetMax(S) == CHOOSE x \in S : \A y \in S : y <= x

\* get_idx_pair: [idx[0], idx[-1]]; idx[0] raises IndexError on an all-zero row
get_idx_pair(mu) == <<SetMin(NonZero(mu)), SetMax(NonZero(mu))>>

\* CoExp.__init__ after PertBio.__init__
CoExp_init(a) ==
    Put(Put(PertBio_init(a), "mu_full", a.pert_full),
        "pos_full", [k \in 1..Len(a.pert_full) |-> get_idx_pair(a.pert_full[k])])

CoExp_init_raises(a) == \E k \in 1..Len(a.pert_full) : NonZero(a.pert_full[k]) = {}

\* ------------------------------------------------------------ factory

NoCall == [variant |-> "none"]
NoResult == [done |-> FALSE]

Init ==
    /\ args \in CellBoxArgs \cup OtherArgs \cup CoExpArgs
    /\ caller \in {"factory", "direct"}
    /\ caller = "direct" => args.model \in Implemented
    /\ pc = "start"
    /\ obj = <<>>
    /\ ret = "pending"
    /\ exc = "none"
    /\ steps = <<>>
    /\ call = NoCall
    /\ result = NoResult

Raise(e) ==
    /\ pc' = "raised"
    /\ exc' = e

\* Class(args): the constructor of the class the model name selects
Construct(o) ==
    IF args.model \in CoExpFamily /\ CoExp_init_raises(args)
    THEN /\ Raise("IndexError")
         /\ obj' = PertBio_init(args)
    ELSE /\ pc' = "build"
         /\ exc' = exc
         /\ obj' = o @@ (IF args.model \in CoExpFamily THEN CoExp_init(args)
                                                       ELSE PertBio_init(args))

\* factory, lines 15-26: one of the five tests matches; Class(args).build() follows
factory ==
    /\ pc = "start"
    /\ caller = "factory"
    /\ args.model \in Implemented
    /\ Construct(<<>>)
    /\ UNCHANGED <<args, caller, ret, steps, call, result>>

\* factory, after line 26: no test matched and the function ends, returning None
factory_fall_through ==
    /\ pc = "start"
    /\ caller = "factory"
    /\ args.model \notin Implemented
    /\ pc' = "done"
    /\ ret' = "None"
    /\ UNCHANGED <<args, caller, obj, exc, steps, call, result>>

\* A caller other than factory: it constructs the class, assigns the three
\* initial-state attributes PertBio.build reads, and calls build()
direct ==
    /\ pc = "start"
    /\ caller = "direct"
    /\ Construct([train_y0 |-> Input("train_y0"), monitor_y0 |-> Input("monitor_y0"),
                  eval_y0 |-> Input("eval_y0")])
    /\ UNCHANGED <<args, caller, ret, steps, call, result>>

\* ------------------------------------------------------ parameter builders

Variable(name, r, c) == [op |-> "variable", name |-> name, rows |-> r, cols |-> c]
Softplus(v) == [op |-> "softplus", of |-> v]

\* CellBox.get_variables, lines 152-161, given the mask
CellBox_params(a, mask) ==
    LET base == [W |-> [op |-> "mul", mask |-> mask, of |-> Variable("W", a.n_x, a.n_x)],
                 alpha |-> Softplus(Variable("alpha", a.n_x, 1)),
                 eps |-> Softplus(Variable("eps", a.n_x, 1))]
    IN  IF a.envelope = 2 THEN Put(base, "psi", Softplus(Variable("psi", a.n_x, 1)))
                          ELSE base

\* LinReg.get_variables
LinReg_params(a) ==
    [W |-> Variable("W", a.n_x, a.n_x), b |-> Variable("b", a.n_x, 1)]

\* NN.get_variables (n_hidden is not modelled: rows / cols 0 stand for it)
NN_params(a) ==
    [W_h |-> Variable("Wh", a.n_x, 0), b_h |-> Variable("bh", 0, 1),
     W |-> Variable("Wo", 0, a.n_x), b |-> Variable("bo", a.n_x, 1)]

\* CoExp.get_variables
CoExp_params(a) ==
    [Ws |-> Variable("Ws", a.n_x, a.n_x), bs |-> Variable("bs", a.n_x, a.n_x)]

\* CoExpNonlinear.get_variables
CoExpNonlinear_params(a) ==
    [Ws |-> Variable("Ws", a.n_x, a.n_x), bs |-> Variable("bs", a.n_x, a.n_x),
     W |-> Variable("W", a.n_x, 1), b |-> Variable("b", a.n_x, 1)]

\* ------------------------------------------------------------- build

\* self.params = {}  (lines 73, 85, 263)
build_params ==
    /\ pc = "build"
    /\ obj' = Put(obj, "params", <<>>)
    /\ pc' = "get_variables"
    /\ steps' = Append(steps, "params")
    /\ UNCHANGED <<args, caller, ret, exc, call, result>>

\* self.get_variables()  (lines 74, 86, 264), dispatched on the class
build_get_variables ==
    /\ pc = "get_variables"
    /\ IF args.model = "CellBox"
       THEN LET r == W_mask(args.n_x, args.n_protein_nodes, args.n_activity_nodes)
            IN  IF r.err
                THEN /\ Raise("ValueError")
                     /\ UNCHANGED <<obj, steps>>
                ELSE /\ obj' = Put(obj, "params", CellBox_params(args, r.m))
                     /\ pc' = "y0"
                     /\ steps' = Append(steps, "get_variables")
                     /\ exc' = exc
       ELSE /\ obj' = Put(obj, "params",
                         CASE args.model = "LinReg" -> LinReg_params(args)
                           [] args.model = "NN" -> NN_params(args)
                           [] args.model = "CoExp" -> CoExp_params(args)
                           [] OTHER -> CoExpNonlinear_params(args))
            /\ pc' = IF args.model \in CoExpFamily THEN "coexp_forward" ELSE "forward_train"
            /\ steps' = Append(steps, "get_variables")
            /\ exc' = exc
    /\ UNCHANGED <<args, caller, ret, call, result>>

\* None is <<>>, a value v is <<v>>
None == <<>>
Some(v) == <<v>>

\* CellBox.build, lines 87-97: the initial state of one split
CellBox_y0Untransposed(pert_form, n_x, x) ==
    IF pert_form = "by u" THEN Some(ZerosNode(n_x, 1))
    ELSE IF pert_form = "fix x" THEN Some(x)
    ELSE None

CellBox_y0(pert_form, n_x, x) ==
    IF pert_form = "by u" THEN Some(ZerosNode(n_x, 1))
    ELSE IF pert_form = "fix x" THEN Some(TransposeNode(x))
    ELSE None

\* CellBox.build, lines 92 and 97: gradient_zero_from, when a branch sets it
CellBox_gradient_zero_from(a) ==
    IF a.pert_form = "by u" THEN Some(None)
    ELSE IF a.pert_form = "fix x" THEN Some(Some(a.n_activity_nodes))
    ELSE None

\* CellBox.build, lines 87-100
CellBox_build_y0 ==
    /\ pc = "y0"
    /\ LET y0s == [s \in Splits |-> CellBox_y0(args.pert_form, args.n_x, obj[XAttr(s)])]
           gzf == CellBox_gradient_zero_from(args)
           kernel == [envelope_fn |-> "cellbox.kernel.get_envelope(args)",
                      ode_solver |-> "cellbox.kernel.get_ode_solver(args)",
                      _dxdt |-> "cellbox.kernel.get_dxdt(args, params)"]
       IN  IF gzf = None
           THEN /\ obj' = kernel @@ obj
                /\ steps' = steps
           ELSE /\ obj' = kernel @@ [train_y0 |-> y0s["train"][1],
                                     monitor_y0 |-> y0s["monitor"][1],
                                     eval_y0 |-> y0s["eval"][1],
                                     gradient_zero_from |-> gzf[1]] @@ obj
                /\ steps' = Append(steps, "y0")
    /\ pc' = "forward_train"
    /\ UNCHANGED <<args, caller, ret, exc, call, result>>

FwdPc(s) == IF s = "train" THEN "forward_train"
            ELSE IF s = "monitor" THEN "forward_monitor" ELSE "forward_eval"
AfterFwd(s) == IF s = "train" THEN "forward_monitor"
               ELSE IF s = "monitor" THEN "forward_eval" ELSE "get_ops"
FwdStep(s) == IF s = "train" THEN "forward_train"
              ELSE IF s = "monitor" THEN "forward_monitor" ELSE "forward_eval"

\* The attribute PertBio.build passes as mu for each split (lines 75-77)
PertBio_build_mu(s) == IF s = "eval" THEN "train_x" ELSE XAttr(s)

\* The attribute CellBox.build passes as mu for each split (lines 101-103)
CellBox_build_mu(s) == XAttr(s)

\* LinReg.forward / NN.forward as graph nodes: x is not read
LinReg_forward_node(x, mu) == [fn |-> "LinReg.forward", mu |-> mu, reads |-> {"W", "b"}]
NN_forward_node(x, mu) == [fn |-> "NN.forward", mu |-> mu, reads |-> {"W_h", "b_h", "W", "b"}]

\* CellBox.forward as graph nodes: (convergence_metric, yhat)
CellBox_forward_node(y0, mu, gzf, out) ==
    [fn |-> "CellBox.forward", y0 |-> y0, mu |-> mu, gradient_zero_from |-> gzf, out |-> out]

\* PertBio.build, lines 75-77, one line per split
PertBio_build_forward(s) ==
    /\ pc = FwdPc(s)
    /\ args.model \in SharedBuild
    /\ IF ~Has(Y0Attr(s))
       THEN /\ Raise("AttributeError")
            /\ UNCHANGED <<obj, steps>>
       ELSE /\ obj' = Put(obj, YhatAttr(s),
                          IF args.model = "LinReg"
                          THEN LinReg_forward_node(obj[Y0Attr(s)], obj[PertBio_build_mu(s)])
                          ELSE NN_forward_node(obj[Y0Attr(s)], obj[PertBio_build_mu(s)]))
            /\ pc' = AfterFwd(s)
            /\ steps' = Append(steps, FwdStep(s))
            /\ exc' = exc
    /\ UNCHANGED <<args, caller, ret, call, result>>

\* CellBox.build, lines 101-103, one line per split; forward reads
\* self.gradient_zero_from at line 112
CellBox_build_forward(s) ==
    /\ pc = FwdPc(s)
    /\ args.model = "CellBox"
    /\ IF ~Has(Y0Attr(s)) \/ ~Has("gradient_zero_from")
       THEN /\ Raise("AttributeError")
            /\ UNCHANGED <<obj, steps>>
       ELSE /\ obj' = Put(Put(obj, YhatAttr(s),
                              CellBox_forward_node(obj[Y0Attr(s)], obj[CellBox_build_mu(s)],
                                                   obj["gradient_zero_from"], "yhat")),
                          MetricAttr(s),
                          CellBox_forward_node(obj[Y0Attr(s)], obj[CellBox_build_mu(s)],
                                               obj["gradient_zero_from"], "convergence_metric"))
            /\ pc' = AfterFwd(s)
            /\ steps' = Append(steps, FwdStep(s))
            /\ exc' = exc
    /\ UNCHANGED <<args, caller, ret, call, result>>

\* CoExp.build, lines 265-266: the training and the selection forward pass,
\* both over train_x.  TensorFlow's own shape checks are not modelled.
CoExp_build_forward ==
    /\ pc = "coexp_forward"
    /\ obj' = [pos |-> [op |-> "constant", of |-> obj["pos_full"]],
               xhat_training |-> [fn |-> "CoExp.forward", x_gold |-> obj["train_x"],
                                  training |-> TRUE],
               xhat |-> [fn |-> "CoExp.forward", x_gold |-> obj["train_x"],
                         training |-> FALSE]] @@ obj
    /\ pc' = "get_ops"
    /\ steps' = Append(steps, "forward_train")
    /\ UNCHANGED <<args, caller, ret, exc, call, result>>

\* loss(y, yhat, params['W'], l1, l2, [weight=...], alpha=0.5): (total, mse)
Loss(o, s, weighted, out) ==
    [op |-> "loss", y |-> o[YAttr(s)], yhat |-> o[YhatAttr(s)], W |-> o["params"]["W"],
     l1 |-> o["l1_lambda"], l2 |-> o["l2_lambda"],
     weight |-> IF weighted THEN Some(o[YAttr(s)]) ELSE None, out |-> out]

\* PertBio.get_ops, lines 47-60: the branch weight_loss selects, None when neither
get_ops_lowercase(weight_loss) ==
    IF weight_loss = "expr" THEN Some(TRUE)
    ELSE IF weight_loss = "none" THEN Some(FALSE)
    ELSE None

get_ops_branch(weight_loss) ==
    IF weight_loss = "expr" THEN Some(TRUE)
    ELSE IF weight_loss = "None" THEN Some(FALSE)
    ELSE None

\* PertBio.get_ops, line 61: the loss optimize is bound to
get_ops_target(o) == o["train_loss"]

\* PertBio.get_ops, lines 45-61 (LinReg, NN and CellBox use it)
get_ops ==
    /\ pc = "get_ops"
    /\ args.model \in SharedBuild \cup {"CellBox"}
    /\ LET br == get_ops_branch(args.weight_loss)
       IN  IF br = None
           THEN \* neither branch ran; line 61 reads self.train_loss, which is not set
                /\ Raise("AttributeError")
                /\ UNCHANGED <<obj, steps>>
           ELSE LET losses ==
                        [train_loss |-> Loss(obj, "train", br[1], "total"),
                         train_mse_loss |-> Loss(obj, "train", br[1], "mse"),
                         monitor_loss |-> Loss(obj, "monitor", br[1], "total"),
                         monitor_mse_loss |-> Loss(obj, "monitor", br[1], "mse"),
                         eval_loss |-> Loss(obj, "eval", br[1], "total"),
                         eval_mse_loss |-> Loss(obj, "eval", br[1], "mse")] @@ obj
                IN  /\ obj' = Put(losses, "op_optimize",
                                  [op |-> "optimize", loss |-> get_ops_target(losses),
                                   lr |-> losses["lr"]])
                    /\ pc' = "return"
                    /\ steps' = Append(steps, "get_ops")
                    /\ exc' = exc
    /\ UNCHANGED <<args, caller, ret, call, result>>

\* CoExp.get_ops, lines 254-260
CoExp_get_ops ==
    /\ pc = "get_ops"
    /\ args.model \in CoExpFamily
    /\ LET ops == [l1_lambda |-> Input("l1_lambda"),
                   loss_mse |-> [op |-> "mse", x |-> obj["train_x"], xhat |-> obj["xhat"]],
                   loss_mse_training |-> [op |-> "mse", x |-> obj["train_x"],
                                          xhat |-> obj["xhat_training"]],
                   loss |-> [op |-> "mse+l1", x |-> obj["train_x"],
                             xhat |-> obj["xhat_training"]],
                   lr |-> Input("lr_placeholder")] @@ obj
       IN  obj' = Put(ops, "op_optimize",
                      [op |-> "optimize", loss |-> ops["loss"], lr |-> ops["lr"]])
    /\ pc' = "return"
    /\ steps' = Append(steps, "get_ops")
    /\ UNCHANGED <<args, caller, ret, exc, call, result>>

\* return self  (lines 79, 105, 268), handed on by factory
build_return ==
    /\ pc = "return"
    /\ pc' = "done"
    /\ ret' = "model"
    /\ UNCHANGED <<args, caller, obj, exc, steps, call, result>>

Next ==
    \/ factory
    \/ factory_fall_through
    \/ direct
    \/ build_params
    \/ build_get_variables
    \/ CellBox_build_y0
    \/ \E s \in Splits : PertBio_build_forward(s)
    \/ \E s \in Splits : CellBox_build_forward(s)
    \/ CoExp_build_forward
    \/ get_ops
    \/ CoExp_get_ops
    \/ build_return

Spec == Init /\ [][Next]_vars

\* ------------------------------------------------ claims on the build

Range(q) == {q[k] : k \in 1..Len(q)}
Ended == pc \in {"done", "raised"}
UsesGetOps == args.model \in SharedBuild \cup {"CellBox"}

\* Values of the variable W the masked product is evaluated on
WSamples(n) == {[i \in 1..n |-> [j \in 1..n |-> c + n * (i - 1) + j]] : c \in {-3, -1, 1}}

\* Values of a split's perturbation input (batch x n_x)
XSamples(n) == {[b \in 1..bt |-> [i \in 1..n |-> c * b + i]] : bt \in {1, 2}, c \in {0, 7}}

MaskBuilt == Has("params") /\ "W" \in DOMAIN obj["params"]

\* C1: for a valid boundary triple the mask CellBox.get_variables builds has a
\* zero diagonal, zero rows from n_activity_nodes on, zero columns in
\* [n_protein_nodes, n_activity_nodes) and a zero block
\* [n_protein_nodes, n_activity_nodes) x [n_activity_nodes, n_x); params['W'] is
\* W where the mask is 1 and 0 elsewhere; and get_variables does not fail.
C1_MaskConstraints ==
    (args.model = "CellBox" /\ ValidTriple(args)) =>
        /\ exc # "ValueError"
        /\ MaskBuilt =>
            LET n == args.n_x
                p == args.n_protein_nodes
                a == args.n_activity_nodes
                M == obj["params"]["W"].mask
                I == 0..(n - 1)
            IN  /\ \A i \in I : M[i + 1][i + 1] = 0
                /\ \A i \in I, j \in I : i >= a => M[i + 1][j + 1] = 0
                /\ \A i \in I, j \in I : (p <= j /\ j < a) => M[i + 1][j + 1] = 0
                /\ \A i \in I, j \in I : (p <= i /\ i < a /\ j >= a) => M[i + 1][j + 1] = 0
                /\ \A i \in I, j \in I : M[i + 1][j + 1] \in {0, 1}
                /\ \A W \in WSamples(n) : \A i \in I, j \in I :
                       MaskedW(M, W)[i + 1][j + 1] =
                           IF M[i + 1][j + 1] = 1 THEN W[i + 1][j + 1] ELSE 0

\* C1 witness: a built mask with protein, activity and drug nodes all present,
\* which keeps an entry (protein row, protein column) and zeroes the block
C1_Witness ==
    /\ args.model = "CellBox"
    /\ MaskBuilt
    /\ args.n_protein_nodes = 2 /\ args.n_activity_nodes = 3 /\ args.n_x = 4
    /\ obj["params"]["W"].mask[1][2] = 1
    /\ obj["params"]["W"].mask[3][4] = 0

\* C2: in every variant built by the shared build (LinReg, NN) or by
\* CellBox.build, a split's prediction is computed from that split's own
\* perturbation input.
C2_OwnInput ==
    \A s \in Splits :
        (args.model \in SharedBuild \cup {"CellBox"} /\ Has(YhatAttr(s)))
            => obj[YhatAttr(s)].mu = obj[XAttr(s)]

BuildOrder ==
    <<"params", "get_variables", "y0", "forward_train", "forward_monitor",
      "forward_eval", "get_ops">>

Exposed ==
    {"params", "train_loss", "monitor_loss", "eval_loss",
     "train_yhat", "monitor_yhat", "eval_yhat", "op_optimize"}

\* A configuration whose every field has a value the code itself tests for
RecognisedConfig ==
    /\ ValidTriple(args)
    /\ args.pert_form \in {"by u", "fix x"}
    /\ args.weight_loss \in {"expr", "None"}
    /\ ~CoExp_init_raises(args)

\* C3: for every model name factory dispatches and every valid configuration,
\* build runs params -> get_variables -> initial state -> forward per split ->
\* get_ops, in that order and skipping none, ends returning a model that exposes
\* params, the three losses, the three predictions and op_optimize, and reads no
\* attribute that was not set before.
C3_BuildSequence ==
    (caller = "factory" /\ args.model \in Implemented /\ RecognisedConfig) =>
        /\ exc # "AttributeError"
        /\ Len(steps) <= Len(BuildOrder)
        /\ steps = SubSeq(BuildOrder, 1, Len(steps))
        /\ Ended => /\ pc = "done"
                    /\ ret = "model"
                    /\ steps = BuildOrder
                    /\ Exposed \subseteq DOMAIN obj

Y0Ran == args.model = "CellBox" /\ "get_variables" \in Range(steps) /\ pc # "y0"

\* The initial state of split s is the transpose of that split's input, at
\* every node position below n_activity_nodes
Y0IsTransposed(s) ==
    /\ Has(Y0Attr(s))
    /\ obj[Y0Attr(s)].op = "transpose"
    /\ obj[Y0Attr(s)].of = obj[XAttr(s)]
    /\ \A X \in XSamples(args.n_x) :
         \A i \in 0..(Min(args.n_activity_nodes, args.n_x) - 1), b \in 0..(Rows(X) - 1) :
            EvalNode(obj[Y0Attr(s)], X)[i + 1][b + 1] = X[b + 1][i + 1]

\* The initial state of split s is zero whatever the input holds
Y0IsZero(s) ==
    /\ Has(Y0Attr(s))
    /\ obj[Y0Attr(s)].op = "zeros"
    /\ \A X \in XSamples(args.n_x) :
         LET v == EvalNode(obj[Y0Attr(s)], X)
         IN  /\ Rows(v) = args.n_x
             /\ \A i \in 1..Rows(v), b \in 1..Cols(v) : v[i][b] = 0

PertFormSwitch(fix, byInput) ==
    Y0Ran =>
        /\ args.pert_form = fix =>
              /\ \A s \in Splits : Y0IsTransposed(s)
              /\ Has("gradient_zero_from")
              /\ obj["gradient_zero_from"] = Some(args.n_activity_nodes)
        /\ args.pert_form = byInput =>
              /\ \A s \in Splits : Y0IsZero(s)
              /\ Has("gradient_zero_from")
              /\ obj["gradient_zero_from"] = None

\* C4 as stated: with pert_form "fix node level" each split's y0 is the
\* transpose of its input below n_activity_nodes and the gradient-zero boundary
\* is n_activity_nodes; with "by input" each y0 is zero and no boundary is set.
C4_Original ==
    (caller = "factory" /\ ValidTriple(args)) => PertFormSwitch("fix node level", "by input")

\* C4 amended: the same, for the literals CellBox.build compares pert_form
\* with: 'fix x' (transpose, boundary n_activity_nodes) and 'by u' (zero, None).
C4_PertFormSwitch == PertFormSwitch("fix x", "by u")

\* C4 witness: a 'fix x' build past the initial-state step, and reading an
\* input with activity nodes below the boundary
C4_Witness ==
    /\ Y0Ran
    /\ args.pert_form = "fix x"
    /\ args.n_activity_nodes >= 2
    /\ Has("eval_y0")
    /\ obj["eval_y0"] = TransposeNode(Input("eval_x"))

\* C5: for a model name factory does not implement, factory fails with an
\* error; it never returns normally without a built model.
C5_UnknownModelFails ==
    (caller = "factory" /\ args.model \notin Implemented /\ Ended)
        => (pc = "raised" /\ exc # "none" /\ ret # "None")

GetOpsRan == UsesGetOps /\ "forward_eval" \in Range(steps) /\ pc # "get_ops"

LossesBuilt(weighted) ==
    /\ \A s \in Splits :
         /\ Has(LossAttr(s)) /\ Has(MseAttr(s))
         /\ obj[LossAttr(s)].y = obj[YAttr(s)]
         /\ obj[LossAttr(s)].yhat = obj[YhatAttr(s)]
         /\ obj[LossAttr(s)].weight = (IF weighted THEN Some(obj[YAttr(s)]) ELSE None)
    /\ Has("op_optimize")
    /\ obj["op_optimize"].loss = obj["train_loss"]
    /\ obj["op_optimize"].lr = obj["lr"]

NothingExposed ==
    /\ pc = "raised"
    /\ ret # "model"
    /\ \A s \in Splits : ~Has(LossAttr(s))
    /\ ~Has("op_optimize")

WeightLossSwitch(unweighted) ==
    GetOpsRan =>
        /\ args.weight_loss \notin {"expr", unweighted} => NothingExposed
        /\ args.weight_loss = "expr" => LossesBuilt(TRUE)
        /\ args.weight_loss = unweighted => LossesBuilt(FALSE)

\* A factory build of a valid triple and a pert_form build recognises
FactoryRecognisedPertForm ==
    caller = "factory" /\ ValidTriple(args) /\ args.pert_form \in {"by u", "fix x"}

\* C6 as stated: a weight_loss other than "expr" and "none" makes get_ops fail
\* with nothing exposed; "expr" builds target-weighted losses, "none" unweighted
\* ones, and op_optimize is bound to the train loss and the learning rate.
C6_Original == FactoryRecognisedPertForm => WeightLossSwitch("none")

\* C6 amended: the same with the unweighted mode spelled 'None', the literal
\* get_ops compares with ("none" is then an unrecognised mode, and fails).
C6_WeightLossSwitch == WeightLossSwitch("None")

\* C6 witness: an unweighted build that went through get_ops and returned
C6_Witness ==
    /\ GetOpsRan
    /\ args.weight_loss = "None"
    /\ pc = "done"
    /\ Has("op_optimize")
    /\ obj["eval_loss"].weight = None

\* C7: for a boundary triple that violates
\* 0 <= n_protein_nodes <= n_activity_nodes <= n_x, CellBox.get_variables fails
\* before any parameter is stored; it never completes with a mask.
C7_InvalidTripleFails ==
    (args.model = "CellBox" /\ ~ValidTriple(args)) =>
        /\ "get_variables" \notin Range(steps)
        /\ Has("params") => DOMAIN obj["params"] = {}

\* ------------------------------------- forward passes on concrete tensors

\* tf.matmul
MatMul(A, B) ==
    [i \in 1..Rows(A) |-> [j \in 1..Cols(B) |->
        SumSeq([k \in 1..Cols(A) |-> A[i][k] * B[k][j]])]]

\* tf.reshape(t, [1, -1]): one row, the elements in row-major order
ReshapeRow(t) ==
    <<[c \in 1..(Rows(t) * Cols(t)) |-> t[((c - 1) \div Cols(t)) + 1][((c - 1) % Cols(t)) + 1]]>>

\* A + row, the 1 x n row broadcast over the rows of A
AddRow(A, row) == [i \in 1..Rows(A) |-> [j \in 1..Cols(A) |-> A[i][j] + row[1][j]]]

\* LinReg.forward, lines 173-175
LinReg_forwardTransposedW(x, mu, W, b) == AddRow(MatMul(mu, Transpose(W)), ReshapeRow(b))

LinReg_forward(x, mu, W, b) == AddRow(MatMul(mu, W), ReshapeRow(b))

\* ys[-k:], line 114: Python's slice from -k (and -0 is 0) to the end
TailOneMore(ys, k) == SubSeq(ys, SliceBound(-(k + 1), Len(ys)) + 1, Len(ys))

TailSlice(ys, k) == SubSeq(ys, SliceBound(-k, Len(ys)) + 1, Len(ys))

\* tf.nn.moments(ys, axes=0), line 116: per-entry mean and variance over the
\* retained states, as exact quotients (the code names the variance sd)
MomentsSecond(ys) ==
    LET k == Len(ys)
        S(i, b) == SumSeq([t \in 1..k |-> ys[t][i][b]])
        Q(i, b) == SumSeq([t \in 1..k |-> ys[t][i][b] * ys[t][i][b]])
    IN  [mean |-> [i \in 1..Rows(ys[1]) |-> [b \in 1..Cols(ys[1]) |-> Frac(S(i, b), k)]],
         sd |-> [i \in 1..Rows(ys[1]) |-> [b \in 1..Cols(ys[1]) |-> Frac(Q(i, b), k)]]]

Moments(ys) ==
    LET k == Len(ys)
        S(i, b) == SumSeq([t \in 1..k |-> ys[t][i][b]])
        Q(i, b) == SumSeq([t \in 1..k |-> ys[t][i][b] * ys[t][i][b]])
    IN  [mean |-> [i \in 1..Rows(ys[1]) |-> [b \in 1..Cols(ys[1]) |-> Frac(S(i, b), k)]],
         sd |-> [i \in 1..Rows(ys[1]) |-> [b \in 1..Cols(ys[1]) |->
                    Frac(k * Q(i, b) - S(i, b) * S(i, b), k * k)]]]

\* An integer tensor as exact quotients
AsFrac(M) == [i \in 1..Rows(M) |-> [j \in 1..Cols(M) |-> Frac(M[i][j], 1)]]

\* The derivative function cellbox.kernel.get_dxdt returns: the constant zero
\* vector, or a relaxation towards the input
dxdt(kind, y, mu_t) ==
    IF kind = "zero" THEN Zeros(Rows(y), Cols(y))
    ELSE [i \in 1..Rows(y) |-> [b \in 1..Cols(y) |-> mu_t[i][b] - y[i][b]]]

\* The solver cellbox.kernel.get_ode_solver returns: n_T ordered states; with
\* a zero derivative every state is y0, otherwise the states are traj
ode_solver(y0, mu_t, n_T, kind, traj) ==
    IF kind = "zero" THEN [t \in 1..n_T |-> y0] ELSE traj

\* CellBox.forward, lines 107-121
CellBox_forward(c) ==
    LET mu_t == Transpose(c.mu)
        ys_full == ode_solver(c.y0, mu_t, c.n_T, c.dxdt, c.traj)
        ys == TailSlice(ys_full, c.ode_last_steps)
        mom == Moments(ys)
        yhat == Transpose(ys[Len(ys)])
        d == dxdt(c.dxdt, ys[Len(ys)], mu_t)
    IN  [done |-> TRUE, ys |-> ys, yhat |-> yhat,
         convergence_metric |-> mom.mean \o mom.sd \o AsFrac(d)]

\* Shapes (n_x, batch) of the calls evaluated
ZeroDims == {<<2, 1>>, <<1, 2>>, <<2, 2>>, <<4, 1>>}
TrajDims == {<<2, 1>>, <<1, 2>>}
StateVals == {0, 1, 2}
TrajVals == {0, 1}

\* Calls with the constant-zero derivative: any y0
ZeroCalls ==
    UNION {{[variant |-> "CellBox", dxdt |-> "zero", y0 |-> y, mu |-> Transpose(y),
             n_T |-> n, ode_last_steps |-> k, traj |-> <<>>] :
               y \in Matrices(d[1], d[2], StateVals), n \in 1..MaxT, k \in 0..(MaxT + 1)} :
           d \in ZeroDims}

\* Calls with a derivative that is not zero: any trajectory of n_T states;
\* y0 is what build passes, zeros ('by u') or the transposed input ('fix x')
TrajCalls ==
    UNION {UNION {{[variant |-> "CellBox", dxdt |-> "relax", y0 |-> y, mu |-> m,
                    n_T |-> n, ode_last_steps |-> k, traj |-> tr] :
                      m \in Matrices(d[2], d[1], TrajVals),
                      y \in {Zeros(d[1], d[2])},
                      k \in 0..(MaxT + 1),
                      tr \in [1..n -> Matrices(d[1], d[2], TrajVals)]} :
                  n \in 1..MaxT} : d \in TrajDims}

\* Calls of LinReg.forward on two nodes
LinRegCalls ==
    UNION {{[variant |-> "LinReg", x |-> x, mu |-> m, W |-> W, b |-> b] :
              x \in {Zeros(2, bt), [i \in 1..2 |-> [j \in 1..bt |-> 5]]},
              m \in Matrices(bt, 2, IF bt = 1 THEN {0, 1, 2} ELSE {0, 1}),
              W \in Matrices(2, 2, {-1, 0, 1}),
              b \in Matrices(2, 1, {0, 1})} : bt \in {1, 2}}

InitForward ==
    /\ args = [model |-> "none"]
    /\ caller = "forward"
    /\ pc = "call"
    /\ obj = <<>>
    /\ ret = "pending"
    /\ exc = "none"
    /\ steps = <<>>
    /\ call \in ZeroCalls \cup TrajCalls \cup LinRegCalls
    /\ result = NoResult

\* One evaluation of CellBox.forward(y0, mu)
CellBox_forward_call ==
    /\ pc = "call"
    /\ call.variant = "CellBox"
    /\ result' = CellBox_forward(call)
    /\ pc' = "returned"
    /\ UNCHANGED <<args, caller, obj, ret, exc, steps, call>>

\* One evaluation of LinReg.forward(x, mu)
LinReg_forward_call ==
    /\ pc = "call"
    /\ call.variant = "LinReg"
    /\ result' = [done |-> TRUE, xhat |-> LinReg_forward(call.x, call.mu, call.W, call.b)]
    /\ pc' = "returned"
    /\ UNCHANGED <<args, caller, obj, ret, exc, steps, call>>

NextForward == CellBox_forward_call \/ LinReg_forward_call

SpecForward == InitForward /\ [][NextForward]_vars

\* --------------------------------------------- claims on the forward passes

CellBoxReturned == result.done /\ call.variant = "CellBox"
NX == Rows(call.y0)
Batch == Cols(call.y0)

\* The trajectory the solver returned to forward
Trajectory == ode_solver(call.y0, Transpose(call.mu), call.n_T, call.dxdt, call.traj)

\* Rows lo..hi of the convergence metric
Block(lo, hi) == SubSeq(result.convergence_metric, lo, hi)

\* C8: with the constant-zero derivative, for every y0, n_T >= 1 and
\* 1 <= ode_last_steps <= n_T, forward returns y0 transposed as the prediction
\* (shape [batch, n_x]) and a diagnostic of 3 * n_x rows: y0, then zeros
\* (standard deviation), then zeros (derivative).
C8_FixedPoint ==
    (CellBoxReturned /\ call.dxdt = "zero"
        /\ 1 <= call.ode_last_steps /\ call.ode_last_steps <= call.n_T) =>
        /\ result.yhat = Transpose(call.y0)
        /\ Rows(result.yhat) = Batch /\ Cols(result.yhat) = NX
        /\ Len(result.convergence_metric) = 3 * NX
        /\ \A i \in 1..NX, b \in 1..Batch :
             /\ result.convergence_metric[i][b] = <<call.y0[i][b], 1>>
             /\ result.convergence_metric[NX + i][b] = <<0, 1>>
             /\ result.convergence_metric[2 * NX + i][b] = <<0, 1>>

\* C8 witness: the documented scenario (n_x = 4, batch 1, n_T = 3,
\* ode_last_steps = 1, zero derivative) on a y0 that is not zero, returned
C8_Witness ==
    /\ CellBoxReturned /\ call.dxdt = "zero"
    /\ NX = 4 /\ Batch = 1 /\ call.n_T = 3 /\ call.ode_last_steps = 1
    /\ call.y0 = <<<<1>>, <<2>>, <<0>>, <<2>>>>
    /\ result.yhat = <<<<1, 2, 0, 2>>>>

LinRegReturned == result.done /\ call.variant = "LinReg"
Identity2 == <<<<1, 0>>, <<0, 1>>>>

\* C9: LinReg.forward(x, mu) is mu x W + b, the bias broadcast over the batch,
\* whatever x is; with W the identity and b = 0 it is mu.
C9_LinRegForward ==
    LinRegReturned =>
        /\ Rows(result.xhat) = Rows(call.mu)
        /\ \A r \in 1..Rows(call.mu), c \in 1..2 :
             result.xhat[r][c] =
                 call.mu[r][1] * call.W[1][c] + call.mu[r][2] * call.W[2][c] + call.b[c][1]
        /\ \A x \in {Zeros(2, 1), call.mu, Transpose(call.mu)} :
             LinReg_forward(x, call.mu, call.W, call.b) = result.xhat
        /\ (call.W = Identity2 /\ call.b = Zeros(2, 1)) => result.xhat = call.mu

\* C9 witness: a returned call with a W that is not symmetric and a bias
C9_Witness ==
    /\ LinRegReturned
    /\ call.W = <<<<1, -1>>, <<0, 1>>>> /\ call.b = <<<<1>>, <<0>>>>
    /\ call.mu = <<<<2, 1>>>>
    /\ result.xhat = <<<<3, -1>>>>

\* The last k states of the trajectory, in order
LastK(k) == SubSeq(Trajectory, call.n_T - k + 1, call.n_T)

RetainsLast(k) ==
    /\ result.ys = LastK(k)
    /\ k >= 1 => /\ Block(1, NX) = Moments(LastK(k)).mean
                 /\ Block(NX + 1, 2 * NX) = Moments(LastK(k)).sd
    /\ result.yhat = Transpose(Trajectory[call.n_T])
    /\ Block(2 * NX + 1, 3 * NX) =
           AsFrac(dxdt(call.dxdt, Trajectory[call.n_T], Transpose(call.mu)))

\* C10 as stated: for every ode_last_steps k with 0 <= k <= n_T, forward
\* retains exactly the last k states, in order, for the mean and the standard
\* deviation, and takes the prediction and the derivative from the last state.
C10_Original ==
    (CellBoxReturned /\ 0 <= call.ode_last_steps /\ call.ode_last_steps <= call.n_T)
        => RetainsLast(call.ode_last_steps)

\* C10 amended: the same for 1 <= k <= n_T; for k = 0 the slice ys[-0:] keeps
\* the whole trajectory of n_T states.
C10_TailRetained ==
    CellBoxReturned =>
        /\ (1 <= call.ode_last_steps /\ call.ode_last_steps <= call.n_T)
               => RetainsLast(call.ode_last_steps)
        /\ call.ode_last_steps = 0 => RetainsLast(call.n_T)

\* C10 witness: a trajectory of three different states of which the last two
\* are retained
C10_Witness ==
    /\ CellBoxReturned /\ call.dxdt = "relax"
    /\ call.n_T = 3 /\ call.ode_last_steps = 2
    /\ call.traj = <<<<<<1>>, <<1>>>>, <<<<0>>, <<1>>>>, <<<<1>>, <<0>>>>>>
    /\ result.ys = <<<<<<0>>, <<1>>>>, <<<<1>>, <<0>>>>>>

====
